---- MODULE Spec2Model ----
(***************************************************************************)
(* A model of the WebGL2 polygon renderer of src/src/lib.rs:               *)
(*   - the geometry generator (the loop of setup_polygon_buffers together  *)
(*     with add_polygon_vertices, hsl_to_rgb and hue_to_rgb), run under    *)
(*     SpecGen, and hsl_to_rgb on its own under SpecHsl;                   *)
(*   - the Canvas2D driver (init, the five configure operations, clear,    *)
(*     render, resize, dispose) over an abstract WebGL2 context, run under *)
(*     Spec, its frame clock under SpecTime, the options argument of       *)
(*     draw_polygon_row under SpecOptions and the arithmetic of            *)
(*     draw_fractal_tree under SpecFractal;                                *)
(* and of the geometry batcher of src/src/canvas2d.rs (set_color,          *)
(* fill_rect, fill_circle, draw_line, upload, clear), run under SpecBatch  *)
(* and SpecBatchWide.                                                      *)
(*                                                                         *)
(* Numbers.  Colours are exact rationals <<num, den>>.  A position float   *)
(* is a term <<tag, k, e>>: <<"zero", 0, 0>> is the literal 0.0,           *)
(* <<"cos", k, e>> is cos(k * 2*PI / e) * 0.12 and <<"sin", k, e>> is      *)
(* sin(k * 2*PI / e) * 0.12.  Host clock values are integer milliseconds;  *)
(* a time computed from them (elapsed seconds, the returned delta) is an   *)
(* exact rational, so the rounding of f64 and f32 is left out.             *)
(***************************************************************************)
EXTENDS Integers, Sequences, FiniteSets, TLC

(* ---- program constants (src/src/lib.rs lines 25-28) ---- *)
SEGMENTS == 30
MIN_POLYGON_SIDES == 3
VERTICES_PER_POLYGON == SEGMENTS + 2

(* ---- bounds of the model ---- *)
\* largest num_polygons the generator is run for under SpecGen
GenMaxCount == 32
\* largest count / resolution passed to a configure operation
MaxCount == 2
\* how many create_buffer calls the context may refuse in one run
MaxRefusals == 1
\* the grid of hsl_to_rgb's arguments has steps of 1 / HslSteps
HslSteps == 6
\* drawing calls the host makes between two clears of the batcher
MaxShapes == 3
\* the same, in the runs that buffer more than 2^16 vertices
MaxWideShapes == 2

VARIABLES
    \* ---- the generator's locals (setup_polygon_buffers, lines 607-639)
    g_pc, num_polygons, g_i,
    all_vertices, all_colors, all_instance_indices, all_side_counts,
    \* ---- the Canvas2D instance (struct Canvas2D, lines 176-190)
    inst, start_time, last_frame_time, width, height, element_count,
    is_disposed,
    \* ---- the WebGL2 context the instance drives
    attribs, viewport, program_deletes, vao_deletes,
    \* ---- the host: clock, create_buffer refusals so far, wasm trap
    now, refusals, trapped,
    \* ---- what the most recent call did: its GL calls and its result
    calls, last,
    \* ---- one call of hsl_to_rgb: its arguments <<h, s, l>> and its result
    hsl, rgb,
    \* ---- the geometry batcher (struct Canvas2D of src/src/canvas2d.rs)
    buf_vertices, indices, vertex_count, index_count, current_color,
    \* ---- the batcher's host: drawing calls since the last clear, wasm trap,
    \*      the most recent call and its arguments
    shapes, b_trapped, b_last,
    \* ---- the local render_options of the draw_polygon_row call just made
    render_options

genVars == <<g_pc, num_polygons, g_i, all_vertices, all_colors,
             all_instance_indices, all_side_counts>>
instVars == <<inst, start_time, last_frame_time, width, height,
              element_count, is_disposed>>
glVars == <<attribs, viewport, program_deletes, vao_deletes>>
hostVars == <<now, refusals, trapped>>
driverVars == <<instVars, glVars, hostVars, calls, last>>
hslVars == <<hsl, rgb>>
bufVars == <<buf_vertices, indices, vertex_count, index_count, current_color>>
batchVars == <<bufVars, shapes, b_trapped, b_last>>
vars == <<genVars, driverVars, hslVars, batchVars, render_options>>

\* what the driver, the generator, hsl_to_rgb and the batcher each leave alone
nonDriverVars == <<genVars, hslVars, batchVars>>
nonGenVars == <<driverVars, hslVars, batchVars, render_options>>
nonHslVars == <<genVars, driverVars, batchVars, render_options>>
nonBatchVars == <<genVars, driverVars, hslVars, render_options>>

(***************************************************************************)
(* Exact rationals                                                         *)
(***************************************************************************)
RECURSIVE Gcd(_, _)
Gcd(a, b) == IF b = 0 THEN a ELSE Gcd(b, a % b)

Abs(x) == IF x < 0 THEN -x ELSE x

Rat(n, d) ==
    LET s == IF d < 0 THEN -1 ELSE 1
        g == Gcd(Abs(n), Abs(d))
    IN  <<(s * n) \div g, (s * d) \div g>>

RAdd(a, b) == Rat(a[1] * b[2] + b[1] * a[2], a[2] * b[2])
RSub(a, b) == Rat(a[1] * b[2] - b[1] * a[2], a[2] * b[2])
RMul(a, b) == Rat(a[1] * b[1], a[2] * b[2])
RLess(a, b) == a[1] * b[2] < b[1] * a[2]

(***************************************************************************)
(* hue_to_rgb and hsl_to_rgb                                               *)
(***************************************************************************)
\* mutant: hue_to_rgb without the wrap of a negative t
hue_to_rgb_nowrap(p, q, t0) ==
    LET t == IF RLess(Rat(1, 1), t0) THEN RSub(t0, Rat(1, 1)) ELSE t0
    IN  IF RLess(t, Rat(1, 6))
        THEN RAdd(p, RMul(RMul(RSub(q, p), Rat(6, 1)), t))
        ELSE IF RLess(t, Rat(1, 2))
        THEN q
        ELSE IF RLess(t, Rat(2, 3))
        THEN RAdd(p, RMul(RMul(RSub(q, p), RSub(Rat(2, 3), t)), Rat(6, 1)))
        ELSE p

hue_to_rgb(p, q, t0) ==
    LET t1 == IF RLess(t0, Rat(0, 1)) THEN RAdd(t0, Rat(1, 1)) ELSE t0
        t  == IF RLess(Rat(1, 1), t1) THEN RSub(t1, Rat(1, 1)) ELSE t1
    IN  IF RLess(t, Rat(1, 6))
        THEN RAdd(p, RMul(RMul(RSub(q, p), Rat(6, 1)), t))
        ELSE IF RLess(t, Rat(1, 2))
        THEN q
        ELSE IF RLess(t, Rat(2, 3))
        THEN RAdd(p, RMul(RMul(RSub(q, p), RSub(Rat(2, 3), t)), Rat(6, 1)))
        ELSE p

hsl_to_rgb(h, s, l) ==
    IF s = Rat(0, 1)
    THEN <<l, l, l>>
    ELSE LET q == IF RLess(l, Rat(1, 2))
                  THEN RMul(l, RAdd(Rat(1, 1), s))
                  ELSE RSub(RAdd(l, s), RMul(l, s))
             p == RSub(RMul(Rat(2, 1), l), q)
         IN  <<hue_to_rgb(p, q, RAdd(h, Rat(1, 3))),
               hue_to_rgb(p, q, h),
               hue_to_rgb(p, q, RSub(h, Rat(1, 3)))>>

(***************************************************************************)
(* add_polygon_vertices                                                    *)
(***************************************************************************)
\* s repeated n times
RECURSIVE Repeat(_, _)
Repeat(s, n) == IF n = 0 THEN <<>> ELSE s \o Repeat(s, n - 1)

Zero == <<"zero", 0, 0>>
CosTerm(k, e) == <<"cos", k, e>>
SinTerm(k, e) == <<"sin", k, e>>

Min(a, b) == IF a < b THEN a ELSE b

\* mutant: the cap at SEGMENTS forgotten
ActualSides_uncapped(sides) == sides

\* the "Use actual number of sides or cap at SEGMENTS" line
ActualSides(sides) == Min(sides, SEGMENTS)

\* mutant: the angle index not wrapped, so the fan is not closed
RimAngleIndex_unwrapped(i, actual_sides) == i

\* the angle index of rim point i: (i % actual_sides)
RimAngleIndex(i, actual_sides) == i % actual_sides

RECURSIVE RimPoints(_, _, _)
\* the loop "for i in 0..=actual_sides", from iteration i on
RimPoints(vertices, i, actual_sides) ==
    IF i > actual_sides
    THEN vertices
    ELSE RimPoints(vertices \o <<CosTerm(RimAngleIndex(i, actual_sides), actual_sides),
                                 SinTerm(RimAngleIndex(i, actual_sides), actual_sides),
                                 Zero>>,
                   i + 1, actual_sides)

\* mutant: the padding loop with an exclusive upper end, one copy short
PadPoints_exclusive(vertices, j, last_x, last_y) ==
    IF j >= SEGMENTS
    THEN vertices
    ELSE vertices \o Repeat(<<last_x, last_y, Zero>>, SEGMENTS - j)

RECURSIVE PadPoints(_, _, _, _)
\* the loop "for _ in (actual_sides + 1)..=SEGMENTS", from iteration j on
PadPoints(vertices, j, last_x, last_y) ==
    IF j > SEGMENTS
    THEN vertices
    ELSE PadPoints(vertices \o <<last_x, last_y, Zero>>, j + 1, last_x, last_y)

add_polygon_vertices(vertices, sides) ==
    LET centre == vertices \o <<Zero, Zero, Zero>>
        actual_sides == ActualSides(sides)
        rim == RimPoints(centre, 0, actual_sides)
        last_x == rim[Len(rim) - 2]
        last_y == rim[Len(rim) - 1]
    IN  PadPoints(rim, actual_sides + 1, last_x, last_y)

(***************************************************************************)
(* The generator: the loop of setup_polygon_buffers (lines 615-639)        *)
(***************************************************************************)
\* mutant: the side count capped before it is reported
PolygonSides_capped(i) == Min(MIN_POLYGON_SIDES + i, SEGMENTS)

\* sides of polygon i
PolygonSides(i) == MIN_POLYGON_SIDES + i

\* the colour of polygon i of n: hsl_to_rgb(i / n, 0.9, 0.6)
PolygonColor(i, n) == hsl_to_rgb(Rat(i, n), Rat(9, 10), Rat(6, 10))

\* the four floats pushed per vertex of polygon i: r, g, b and alpha 1.0
VertexColor(i, n) ==
    LET c == PolygonColor(i, n) IN <<c[1], c[2], c[3], Rat(1, 1)>>

GenInit ==
    /\ g_pc = "loop"
    /\ num_polygons \in 0..GenMaxCount
    /\ g_i = 0
    /\ all_vertices = <<>>
    /\ all_colors = <<>>
    /\ all_instance_indices = <<>>
    /\ all_side_counts = <<>>

\* one iteration of "for i in 0..num_polygons"
GenIter ==
    /\ g_pc = "loop"
    /\ g_i < num_polygons
    /\ LET sides == PolygonSides(g_i)
       IN  /\ all_vertices' = add_polygon_vertices(all_vertices, sides)
           /\ all_colors' = all_colors
                  \o Repeat(VertexColor(g_i, num_polygons), VERTICES_PER_POLYGON)
           /\ all_instance_indices' = all_instance_indices
                  \o Repeat(<<g_i>>, VERTICES_PER_POLYGON)
           /\ all_side_counts' = all_side_counts
                  \o Repeat(<<sides>>, VERTICES_PER_POLYGON)
    /\ g_i' = g_i + 1
    /\ UNCHANGED <<g_pc, num_polygons>>

\* the loop ends: the four sequences are what is uploaded
GenReturn ==
    /\ g_pc = "loop"
    /\ g_i = num_polygons
    /\ g_pc' = "done"
    /\ UNCHANGED <<num_polygons, g_i, all_vertices, all_colors,
                   all_instance_indices, all_side_counts>>

(***************************************************************************)
(* The WebGL2 context as the driver sees it                                *)
(*                                                                         *)
(* A GL call is <<name, a, b>>.  A buffer is created, filled once and      *)
(* never written again, so a vertex attribute's binding is recorded by     *)
(* what its buffer holds: which of the generator's four sequences, and     *)
(* for how many polygons it was generated.  The four attributes are        *)
(* declared by the vertex shader (lines 32-35) and the four uniforms by    *)
(* lines 37-40; their locations are taken to resolve.                      *)
(***************************************************************************)
AttrNames == {"position", "color", "instanceIndex", "sideCount"}

NoBinding == [data |-> "none", polys |-> 0, size |-> 0]

\* the four upload stages of setup_polygon_buffers, in order
Stages ==
    << [attr |-> "position", data |-> "all_vertices", size |-> 3,
        err |-> "Failed to create position buffer"],
       [attr |-> "color", data |-> "all_colors", size |-> 4,
        err |-> "Failed to create color buffer"],
       [attr |-> "instanceIndex", data |-> "all_instance_indices", size |-> 1,
        err |-> "Failed to create instance buffer"],
       [attr |-> "sideCount", data |-> "all_side_counts", size |-> 1,
        err |-> "Failed to create side count buffer"] >>

BufferErrors == {Stages[k].err : k \in 1..4}

\* one stage that gets its buffer: create, bind, fill, point the attribute at it
StageCalls(k, n) ==
    << <<"create_buffer", k, 0>>,
       <<"bind_buffer", k, n>>,
       <<"buffer_data", k, n>>,
       <<"get_attrib_location", k, 0>>,
       <<"vertex_attrib_pointer", k, Stages[k].size>>,
       <<"enable_vertex_attrib_array", k, 0>> >>

StageBinding(k, n) == [data |-> Stages[k].data, polys |-> n, size |-> Stages[k].size]

RECURSIVE SetupFrom(_, _, _, _)
\* stages k..4 of setup_polygon_buffers for n polygons; create_buffer of stage
\* failAt returns None (failAt = 0: none does), which ends the call by "?"
SetupFrom(k, st, n, failAt) ==
    IF k > 4
    THEN [st EXCEPT !.res = "ok"]
    ELSE IF k = failAt
    THEN [st EXCEPT !.calls = Append(@, <<"create_buffer", k, 0>>),
                    !.res = Stages[k].err]
    ELSE SetupFrom(k + 1,
                   [st EXCEPT !.attribs[Stages[k].attr] = StageBinding(k, n),
                              !.calls = @ \o StageCalls(k, n)],
                   n, failAt)

setup_polygon_buffers(attribs0, n, failAt) ==
    SetupFrom(1, [attribs |-> attribs0, calls |-> <<>>, res |-> "ok"], n, failAt)

(***************************************************************************)
(* The driver                                                              *)
(***************************************************************************)
DisposedError == "Canvas has been disposed"
ConfigureOps == {"draw_polygon_row", "draw_particles", "draw_flow_field",
                 "draw_cellular_automata", "draw_fractal_tree"}

\* what a call leaves for the host to see: the operation, the element count it
\* asked for (configure operations), its result, its return value (render, a
\* rational number of milliseconds), and the active element count it found
Result(op, count, res, ret) ==
    [op |-> op, count |-> count, res |-> res, ret |-> ret,
     prev_count |-> element_count]

\* which create_buffer call, if any, the context refuses during one configure
FailPoints == IF refusals < MaxRefusals THEN 0..4 ELSE {0}

DriverInit ==
    /\ inst = "none"
    /\ start_time = 0
    /\ last_frame_time = 0
    /\ width = 0
    /\ height = 0
    /\ element_count = 0
    /\ is_disposed = FALSE
    /\ attribs = [a \in AttrNames |-> NoBinding]
    /\ viewport = <<0, 0>>
    /\ program_deletes = 0
    /\ vao_deletes = 0
    /\ now = 0
    /\ refusals = 0
    /\ trapped = FALSE
    /\ calls = <<>>
    /\ last = [op |-> "none", count |-> 0, res |-> "ok", ret |-> <<0, 1>>,
               prev_count |-> 0]
    /\ render_options = <<>>

GenIdle ==
    /\ g_pc = "idle"
    /\ num_polygons = 0
    /\ g_i = 0
    /\ all_vertices = <<>>
    /\ all_colors = <<>>
    /\ all_instance_indices = <<>>
    /\ all_side_counts = <<>>

\* no call of hsl_to_rgb under way
HslIdle ==
    /\ hsl = <<>>
    /\ rgb = <<>>

\* the ways Canvas2D::init can end
InitOutcomes == {"ok", "Unable to create shader object", "shader info log",
                 "Unable to create shader program", "program info log",
                 "Failed to create vertex array"}

\* the GL calls of init up to and including the step that fails
InitCalls(outcome, w, h) ==
    LET shader == << <<"create_shader", 0, 0>> >>
        compiled == shader \o << <<"shader_source", 0, 0>>, <<"compile_shader", 0, 0>>,
                                 <<"get_shader_parameter", 0, 0>> >>
        program == compiled \o compiled \o << <<"create_program", 0, 0>> >>
        linked == program \o << <<"attach_shader", 0, 0>>, <<"attach_shader", 1, 0>>,
                                <<"link_program", 0, 0>>,
                                <<"get_program_parameter", 0, 0>> >>
        vao == linked \o << <<"use_program", 0, 0>>,
                            <<"get_uniform_location", 0, 0>>,
                            <<"get_uniform_location", 1, 0>>,
                            <<"get_uniform_location", 2, 0>>,
                            <<"get_uniform_location", 3, 0>>,
                            <<"create_vertex_array", 0, 0>> >>
    IN  CASE outcome = "Unable to create shader object" -> shader
          [] outcome = "shader info log" -> compiled \o << <<"get_shader_info_log", 0, 0>> >>
          [] outcome = "Unable to create shader program" -> program
          [] outcome = "program info log" -> linked \o << <<"get_program_info_log", 0, 0>> >>
          [] outcome = "Failed to create vertex array" -> vao
          [] OTHER -> vao \o << <<"bind_vertex_array", 0, 0>>,
                                <<"viewport", w, h>>,
                                <<"enable", 0, 0>>,
                                <<"blend_func", 0, 0>> >>

\* Canvas2D::init(gl, w, h), the host clock reading t
Init_(w, h, t, outcome) ==
    /\ inst = "none"
    /\ ~trapped
    /\ calls' = InitCalls(outcome, w, h)
    /\ last' = Result("init", 0, outcome, <<0, 1>>)
    /\ IF outcome = "ok"
       THEN /\ inst' = "live"
            /\ start_time' = t
            /\ last_frame_time' = t
            /\ width' = w
            /\ height' = h
            /\ element_count' = 0
            /\ is_disposed' = FALSE
            /\ viewport' = <<w, h>>
            /\ now' = t
       ELSE UNCHANGED <<inst, start_time, last_frame_time, width, height,
                        element_count, is_disposed, viewport, now>>
    /\ UNCHANGED <<attribs, program_deletes, vao_deletes, refusals, trapped>>

\* a call on a disposed instance: the early return of every operation but dispose
Refuse(op, count) ==
    /\ calls' = <<>>
    /\ last' = Result(op, count, DisposedError, <<0, 1>>)
    /\ UNCHANGED <<instVars, glVars, hostVars>>

\* mutant: the new count added to the active count instead of replacing it
Configure_accumulate(op, count, failAt) ==
    LET r == SetupFrom(1, [attribs |-> attribs, calls |-> <<>>, res |-> "ok"],
                       count, failAt)
    IN  /\ attribs' = r.attribs
        /\ calls' = r.calls
        /\ last' = [op |-> op, count |-> count, res |-> r.res, ret |-> <<0, 1>>,
                    prev_count |-> element_count]
        /\ element_count' = IF r.res = "ok" THEN element_count + count
                                            ELSE element_count
        /\ refusals' = IF failAt = 0 THEN refusals ELSE refusals + 1
        /\ UNCHANGED <<inst, start_time, last_frame_time, width, height,
                       is_disposed, viewport, program_deletes, vao_deletes,
                       now, trapped>>

\* the tail shared by the five configure operations:
\*     setup_polygon_buffers(&self.gl, &self.program, count)?;
\*     self.element_count = count;
Configure(op, count, failAt) ==
    LET r == setup_polygon_buffers(attribs, count, failAt)
    IN  /\ attribs' = r.attribs
        /\ calls' = r.calls
        /\ last' = Result(op, count, r.res, <<0, 1>>)
        /\ element_count' = IF r.res = "ok" THEN count ELSE element_count
        /\ refusals' = IF failAt = 0 THEN refusals ELSE refusals + 1
        /\ UNCHANGED <<inst, start_time, last_frame_time, width, height,
                       is_disposed, viewport, program_deletes, vao_deletes,
                       now, trapped>>

\* ---- the options argument of the draw_* calls, a JavaScript value
\* A JavaScript value is [t, b, n]: its type, and its payload if it is a boolean
\* or a number; "throws" stands for a property whose getter throws.  An
\* options argument is [t, fields]: "null", "undefined", an "object" whose
\* properties are fields (absent ones undefined), or a "number", on which
\* Reflect::get fails.
OptionKeys == {"animate", "center_x", "center_y", "scale", "spacing",
               "rotation", "shape_type", "branch_count", "wind_strength",
               "unrecognised"}

JsUndefined == [t |-> "undefined", b |-> FALSE, n |-> 0]
JsNullValue == [t |-> "null", b |-> FALSE, n |-> 0]
JsThrows == [t |-> "throws", b |-> FALSE, n |-> 0]
JsBool(v) == [t |-> "boolean", b |-> v, n |-> 0]
JsNumber(v) == [t |-> "number", b |-> FALSE, n |-> v]
JsString == [t |-> "string", b |-> FALSE, n |-> 0]

NoFields == [k \in OptionKeys |-> JsUndefined]
JsNull == [t |-> "null", fields |-> NoFields]

\* Reflect::get(&options, key): Ok(value), or Err when options is not an
\* object or the getter throws
ReflectGet(options, key) ==
    IF options.t = "object" THEN options.fields[key] ELSE JsThrows

\* "if let Ok(v) = Reflect::get(..) { if !v.is_null() && !v.is_undefined() {
\*  if let Some(value) = v.as_bool() {" : the value to store, or the old one
BoolField(options, key, old) ==
    LET v == ReflectGet(options, key)
    IN  IF v.t = "boolean" THEN v.b ELSE old

\* the same with as_f64(); "value as f32" keeps the model's integers
NumberField(options, key, old) ==
    LET v == ReflectGet(options, key)
    IN  IF v.t = "number" THEN v.n ELSE old

\* "value as u32", which saturates below at 0
AsU32(n) == IF n < 0 THEN 0 ELSE n

\* the match of lines 316-320
ShapeTypeOf(type_val) ==
    CASE type_val = 1 -> "Star"
      [] type_val = 2 -> "Spiral"
      [] OTHER -> "Regular"

\* RenderOptions::new()
DefaultOptions ==
    [animate |-> TRUE, center_x |-> 0, center_y |-> 0, scale |-> 1,
     spacing |-> 1, rotation |-> 0, shape_type |-> "Regular"]

\* lines 253-323: render_options as draw_polygon_row leaves it
ParseOptions(options) ==
    IF options.t \in {"null", "undefined"}
    THEN DefaultOptions
    ELSE [animate |-> BoolField(options, "animate", DefaultOptions.animate),
          center_x |-> NumberField(options, "center_x", DefaultOptions.center_x),
          center_y |-> NumberField(options, "center_y", DefaultOptions.center_y),
          scale |-> NumberField(options, "scale", DefaultOptions.scale),
          spacing |-> NumberField(options, "spacing", DefaultOptions.spacing),
          rotation |-> NumberField(options, "rotation", DefaultOptions.rotation),
          shape_type |->
              IF ReflectGet(options, "shape_type").t = "number"
              THEN ShapeTypeOf(AsU32(ReflectGet(options, "shape_type").n))
              ELSE DefaultOptions.shape_type]

\* mutant: draw_polygon_row leaving the buffers alone when animate is false
draw_polygon_row_static(count, options, failAt) ==
    IF is_disposed
    THEN Refuse("draw_polygon_row", count) /\ render_options' = <<>>
    ELSE IF ParseOptions(options).animate
    THEN /\ Configure("draw_polygon_row", count, failAt)
         /\ render_options' = <<ParseOptions(options)>>
    ELSE /\ calls' = <<>>
         /\ last' = [op |-> "draw_polygon_row", count |-> count, res |-> "ok",
                     ret |-> <<0, 1>>, prev_count |-> element_count]
         /\ render_options' = <<ParseOptions(options)>>
         /\ UNCHANGED <<instVars, glVars, hostVars>>

\* Canvas2D::draw_polygon_row(count, options)
draw_polygon_row(count, options, failAt) ==
    IF is_disposed
    THEN Refuse("draw_polygon_row", count) /\ render_options' = <<>>
    ELSE /\ Configure("draw_polygon_row", count, failAt)
         /\ render_options' = <<ParseOptions(options)>>

draw_particles(count, failAt) ==
    IF is_disposed
    THEN Refuse("draw_particles", count)
    ELSE Configure("draw_particles", count, failAt)

draw_flow_field(resolution, failAt) ==
    IF is_disposed
    THEN Refuse("draw_flow_field", resolution)
    ELSE Configure("draw_flow_field", resolution, failAt)

draw_cellular_automata(grid_size, failAt) ==
    IF is_disposed
    THEN Refuse("draw_cellular_automata", grid_size \div 16)
    ELSE Configure("draw_cellular_automata", grid_size \div 16, failAt)

(***************************************************************************)
(* 32-bit unsigned arithmetic of draw_fractal_tree.  A u32 is two 16-bit   *)
(* limbs <<hi, lo>>.  An operation that overflows panics when the build    *)
(* checks overflow (a debug build) and wraps when it does not (release);   *)
(* a division by zero panics in both.                                      *)
(***************************************************************************)
U32Bits == 32
ELEMENT_LIMIT == 100
Limb == 2 ^ 16

U32(n) == <<n \div Limb, n % Limb>>
U32Zero == <<0, 0>>
U32Max == <<Limb - 1, Limb - 1>>

\* 2u32.pow(d): [v |-> the wrapped value, ovf |-> whether it overflowed]
U32Pow2(d) ==
    IF d >= U32Bits THEN [v |-> U32Zero, ovf |-> TRUE]
    ELSE IF d >= 16 THEN [v |-> <<2 ^ (d - 16), 0>>, ovf |-> FALSE]
    ELSE [v |-> <<0, 2 ^ d>>, ovf |-> FALSE]

\* x - 1
U32Sub1(x) ==
    IF x = U32Zero THEN [v |-> U32Max, ovf |-> TRUE]
    ELSE IF x[2] = 0 THEN [v |-> <<x[1] - 1, Limb - 1>>, ovf |-> FALSE]
    ELSE [v |-> <<x[1], x[2] - 1>>, ovf |-> FALSE]

\* k * b <= a, for a small k
TimesLeq(k, b, a) ==
    LET lo == (k * b[2]) % Limb
        hi == k * b[1] + ((k * b[2]) \div Limb)
    IN  hi < a[1] \/ (hi = a[1] /\ lo <= a[2])

\* (a / b).min(limit) for b # 0: the largest k <= limit with k * b <= a
U32DivMin(a, b, limit) ==
    CHOOSE k \in 0..limit :
        /\ TimesLeq(k, b, a)
        /\ k = limit \/ ~TimesLeq(k + 1, b, a)

\* lines 596-597: [panic |-> whether the arithmetic panics, count |-> element_count]
FractalElementCount(max_depth, branch_count, checks) ==
    LET pw == U32Pow2(max_depth)
        num == U32Sub1(pw.v)
        den == U32Sub1(U32(branch_count))
    IN  IF checks /\ (pw.ovf \/ num.ovf \/ den.ovf)
        THEN [panic |-> TRUE, count |-> 0]
        ELSE IF den.v = U32Zero
        THEN [panic |-> TRUE, count |-> 0]
        ELSE [panic |-> FALSE, count |-> U32DivMin(num.v, den.v, ELEMENT_LIMIT)]

\* lines 572-581: branch_count after the options are read, "value as u32"
DEFAULT_BRANCH_COUNT == 3

BranchCount(options) ==
    LET v == ReflectGet(options, "branch_count")
    IN  IF options.t \notin {"null", "undefined"} /\ v.t = "number"
        THEN AsU32(v.n)
        ELSE DEFAULT_BRANCH_COUNT

\* a panic inside a call: the wasm instance traps and takes no further call
Panic(op) ==
    /\ calls' = <<>>
    /\ last' = Result(op, 0, "panic", <<0, 1>>)
    /\ trapped' = TRUE
    /\ UNCHANGED <<instVars, glVars, now, refusals>>

\* checks: whether this build checks arithmetic overflow
draw_fractal_tree(max_depth, branch_count, checks, failAt) ==
    IF is_disposed
    THEN Refuse("draw_fractal_tree", 0)
    ELSE LET e == FractalElementCount(max_depth, branch_count, checks)
         IN  IF e.panic
             THEN Panic("draw_fractal_tree")
             ELSE Configure("draw_fractal_tree", e.count, failAt)

\* mutant: clear without its disposed check
clear_unchecked ==
    /\ calls' = << <<"clear_color", 0, 0>>, <<"clear", 0, 0>> >>
    /\ last' = [op |-> "clear", count |-> 0, res |-> "ok", ret |-> <<0, 1>>,
                prev_count |-> element_count]
    /\ UNCHANGED <<instVars, glVars, hostVars>>

\* Canvas2D::clear(r, g, b, a); the colour only reaches gl.clear_color
clear ==
    IF is_disposed
    THEN Refuse("clear", 0)
    ELSE /\ calls' = << <<"clear_color", 0, 0>>, <<"clear", 0, 0>> >>
         /\ last' = Result("clear", 0, "ok", <<0, 1>>)
         /\ UNCHANGED <<instVars, glVars, hostVars>>

\* mutant: the draw loop striding by SEGMENTS instead of VERTICES_PER_POLYGON
DrawCalls_stride(i, n) ==
    [k \in 1..(n - i) |->
        <<"draw_arrays", (i + k - 1) * SEGMENTS, VERTICES_PER_POLYGON>>]

\* the draw loop of render, "for i in 0..self.element_count", from i on
RECURSIVE DrawCalls(_, _)
DrawCalls(i, n) ==
    IF i >= n
    THEN <<>>
    ELSE << <<"draw_arrays", i * VERTICES_PER_POLYGON, VERTICES_PER_POLYGON>> >>
         \o DrawCalls(i + 1, n)

\* what render does to the context before the draw loop (lines 364-403);
\* elapsed is in seconds, and it and the aspect ratio width / height are
\* passed as numerator, denominator; the clear colour is a function of elapsed
RenderSetupCalls(elapsed) ==
    << <<"use_program", 0, 0>>,
       <<"bind_vertex_array", 0, 0>>,
       <<"uniform1f_uTime", elapsed[1], elapsed[2]>>,
       <<"uniform1f_uAspectRatio", width, height>>,
       <<"uniform1i_uElementCount", element_count, 0>>,
       <<"uniform_matrix4fv_uMatrix", 1, 0>>,
       <<"clear_color", elapsed[1], elapsed[2]>>,
       <<"clear", 0, 0>> >>

\* mutant: the clock read and the frame time stored before the zero-count return
render_clock_first(current_time) ==
    IF is_disposed
    THEN /\ calls' = <<>>
         /\ last' = [op |-> "render", count |-> 0, res |-> DisposedError,
                     ret |-> <<0, 1>>, prev_count |-> element_count]
         /\ UNCHANGED <<instVars, glVars, hostVars>>
    ELSE /\ last_frame_time' = current_time
         /\ now' = current_time
         /\ calls' = IF element_count = 0 THEN <<>>
                     ELSE << <<"use_program", 0, 0>> >>
         /\ last' = [op |-> "render", count |-> 0, res |-> "ok",
                     ret |-> IF element_count = 0 THEN <<0, 1>>
                             ELSE <<current_time - last_frame_time, 1>>,
                     prev_count |-> element_count]
         /\ UNCHANGED <<inst, start_time, width, height, element_count,
                        is_disposed, glVars, refusals, trapped>>

\* mutant: render leaving last_frame_time as it was
render_no_record(current_time) ==
    IF is_disposed
    THEN /\ calls' = <<>>
         /\ last' = [op |-> "render", count |-> 0, res |-> DisposedError,
                     ret |-> <<0, 1>>, prev_count |-> element_count]
         /\ UNCHANGED <<instVars, glVars, hostVars>>
    ELSE IF element_count = 0
    THEN /\ calls' = <<>>
         /\ last' = [op |-> "render", count |-> 0, res |-> "ok",
                     ret |-> <<0, 1>>, prev_count |-> element_count]
         /\ UNCHANGED <<instVars, glVars, hostVars>>
    ELSE /\ now' = current_time
         /\ calls' = << <<"use_program", 0, 0>>,
                        <<"bind_vertex_array", 0, 0>>,
                        <<"uniform1f_uTime", Rat(current_time - start_time, 1000)[1],
                          Rat(current_time - start_time, 1000)[2]>> >>
         /\ last' = [op |-> "render", count |-> 0, res |-> "ok",
                     ret |-> <<current_time - last_frame_time, 1>>,
                     prev_count |-> element_count]
         /\ UNCHANGED <<instVars, glVars, refusals, trapped>>

\* Canvas2D::render(), performance.now() returning current_time
render(current_time) ==
    IF is_disposed
    THEN Refuse("render", 0)
    ELSE IF element_count = 0
    THEN /\ calls' = <<>>
         /\ last' = Result("render", 0, "ok", <<0, 1>>)
         /\ UNCHANGED <<instVars, glVars, hostVars>>
    ELSE LET elapsed == Rat(current_time - start_time, 1000)
             delta_time == Rat(current_time - last_frame_time, 1000)
         IN  /\ last_frame_time' = current_time
             /\ now' = current_time
             /\ calls' = RenderSetupCalls(elapsed) \o DrawCalls(0, element_count)
             /\ last' = Result("render", 0, "ok", RMul(delta_time, Rat(1000, 1)))
             /\ UNCHANGED <<inst, start_time, width, height, element_count,
                            is_disposed, glVars, refusals, trapped>>

\* mutant: resize refusing a viewport taller than it is wide
resize_strict(w, h) ==
    IF is_disposed
    THEN /\ calls' = <<>>
         /\ last' = [op |-> "resize", count |-> 0, res |-> DisposedError,
                     ret |-> <<0, 1>>, prev_count |-> element_count]
         /\ UNCHANGED <<instVars, glVars, hostVars>>
    ELSE IF w < h
    THEN /\ calls' = <<>>
         /\ last' = [op |-> "resize", count |-> 0, res |-> "Invalid size",
                     ret |-> <<0, 1>>, prev_count |-> element_count]
         /\ UNCHANGED <<instVars, glVars, hostVars>>
    ELSE /\ width' = w
         /\ height' = h
         /\ viewport' = <<w, h>>
         /\ calls' = << <<"viewport", w, h>> >>
         /\ last' = [op |-> "resize", count |-> 0, res |-> "ok", ret |-> <<0, 1>>,
                     prev_count |-> element_count]
         /\ UNCHANGED <<inst, start_time, last_frame_time, element_count,
                        is_disposed, attribs, program_deletes,
                        vao_deletes, hostVars>>

\* mutant: resize moving the viewport without storing the new size
resize_viewport_only(w, h) ==
    IF is_disposed
    THEN /\ calls' = <<>>
         /\ last' = [op |-> "resize", count |-> 0, res |-> DisposedError,
                     ret |-> <<0, 1>>, prev_count |-> element_count]
         /\ UNCHANGED <<instVars, glVars, hostVars>>
    ELSE /\ viewport' = <<w, h>>
         /\ calls' = << <<"viewport", w, h>> >>
         /\ last' = [op |-> "resize", count |-> 0, res |-> "ok", ret |-> <<0, 1>>,
                     prev_count |-> element_count]
         /\ UNCHANGED <<instVars, attribs, program_deletes, vao_deletes, hostVars>>

\* Canvas2D::resize(w, h)
resize(w, h) ==
    IF is_disposed
    THEN Refuse("resize", 0)
    ELSE /\ width' = w
         /\ height' = h
         /\ viewport' = <<w, h>>
         /\ calls' = << <<"viewport", w, h>> >>
         /\ last' = Result("resize", 0, "ok", <<0, 1>>)
         /\ UNCHANGED <<inst, start_time, last_frame_time, element_count,
                        is_disposed, attribs, program_deletes,
                        vao_deletes, hostVars>>

\* mutant: dispose toggling the flag, so a second call revives the instance
dispose_toggle ==
    /\ is_disposed' = ~is_disposed
    /\ program_deletes' = program_deletes
    /\ vao_deletes' = vao_deletes
    /\ calls' = <<>>
    /\ last' = [op |-> "dispose", count |-> 0, res |-> "ok", ret |-> <<0, 1>>,
                prev_count |-> element_count]
    /\ UNCHANGED <<inst, start_time, last_frame_time, width, height,
                   element_count, attribs, viewport, hostVars>>

\* mutant: dispose without its early return on a disposed instance
dispose_unguarded ==
    /\ program_deletes' = program_deletes + 1
    /\ vao_deletes' = vao_deletes + 1
    /\ is_disposed' = TRUE
    /\ calls' = << <<"delete_program", 0, 0>>, <<"delete_vertex_array", 0, 0>> >>
    /\ last' = [op |-> "dispose", count |-> 0, res |-> "ok", ret |-> <<0, 1>>,
                prev_count |-> element_count]
    /\ UNCHANGED <<inst, start_time, last_frame_time, width, height,
                   element_count, attribs, viewport, hostVars>>

\* Canvas2D::dispose()
dispose ==
    IF is_disposed
    THEN /\ calls' = <<>>
         /\ last' = Result("dispose", 0, "ok", <<0, 1>>)
         /\ UNCHANGED <<instVars, glVars, hostVars>>
    ELSE /\ program_deletes' = program_deletes + 1
         /\ vao_deletes' = vao_deletes + 1
         /\ is_disposed' = TRUE
         /\ calls' = << <<"delete_program", 0, 0>>, <<"delete_vertex_array", 0, 0>> >>
         /\ last' = Result("dispose", 0, "ok", <<0, 1>>)
         /\ UNCHANGED <<inst, start_time, last_frame_time, width, height,
                        element_count, attribs, viewport, hostVars>>

(***************************************************************************)
(* The geometry batcher of src/src/canvas2d.rs                             *)
(*                                                                         *)
(* The vertex array is kept as runs: one record per stretch of vertices    *)
(* pushed with one colour, holding the colour and the number of floats     *)
(* pushed (x, y, r, g, b, a per vertex; positions are not kept).  The      *)
(* index array is kept as blocks, one per shape: a quad block stands for   *)
(* the 6 entries pushed by fill_rect or draw_line, a fan block for the     *)
(* 3 * segments entries pushed by fill_circle; BlockEntry gives each entry *)
(* as the code computes it.  Coordinates are integers in units of 0.00005. *)
(***************************************************************************)
MAX_VERTICES == 10000
MAX_INDICES == 15000
U16Bits == 16
\* the length below which draw_line skips the segment: 0.0001, in coordinate units
LINE_THRESHOLD == 2
\* size_of::<f32>() and size_of::<u16>()
F32_BYTES == 4
U16_BYTES == 2

U16Range == 2 ^ U16Bits
U16Max == U16Range - 1

\* the byte sizes Canvas2D::new creates the vertex and the index buffer with
VertexBufferBytes == (MAX_VERTICES * 6) * F32_BYTES
IndexBufferBytes == MAX_INDICES * U16_BYTES

\* "as u16", and u16 arithmetic that wraps
AsU16(n) == n % U16Range

\* [1.0, 1.0, 1.0, 1.0]
White == <<1, 1, 1, 1>>

\* the state Canvas2D::new returns
BatchNew ==
    /\ buf_vertices = <<>>
    /\ indices = <<>>
    /\ vertex_count = 0
    /\ index_count = 0
    /\ current_color = White
    /\ shapes = 0
    /\ b_trapped = FALSE
    /\ b_last = [op |-> "new", arg |-> <<>>]

\* the buffered geometry as one value
Batch ==
    [vertices |-> buf_vertices, indices |-> indices,
     vertex_count |-> vertex_count, index_count |-> index_count]

\* mutant: add_vertex pushing the colour without its alpha component
add_vertex_rgb(b, n) ==
    LET k == Len(b.vertices)
        pushed == 5 * n
    IN  IF n = 0
        THEN b
        ELSE [b EXCEPT !.vertices =
                           IF k > 0 /\ @[k].color = current_color
                           THEN [@ EXCEPT ![k].floats = @ + pushed]
                           ELSE Append(@, [color |-> current_color,
                                           floats |-> pushed]),
                       !.vertex_count = @ + n]

\* n calls of add_vertex in a row: each pushes x, y and the four components of
\* the current colour, and counts one vertex
add_vertex(b, n) ==
    LET k == Len(b.vertices)
        pushed == (2 + 4) * n
    IN  IF n = 0
        THEN b
        ELSE [b EXCEPT !.vertices =
                           IF k > 0 /\ @[k].color = current_color
                           THEN [@ EXCEPT ![k].floats = @ + pushed]
                           ELSE Append(@, [color |-> current_color,
                                           floats |-> pushed]),
                       !.vertex_count = @ + n]

\* the six pushes that end fill_rect and draw_line, and "index_count += 6"
push_quad(b, base_vertex) ==
    [b EXCEPT !.indices = Append(@, [shape |-> "quad", base |-> base_vertex,
                                     segments |-> 0]),
              !.index_count = @ + 6]

\* the index loop of fill_circle: three pushes and "index_count += 3" per segment
push_fan(b, base_vertex, segments) ==
    IF segments = 0
    THEN b
    ELSE [b EXCEPT !.indices = Append(@, [shape |-> "fan", base |-> base_vertex,
                                          segments |-> segments]),
                   !.index_count = @ + 3 * segments]

\* the number of entries of a block
BlockLen(blk) == IF blk.shape = "quad" THEN 6 ELSE 3 * blk.segments

\* the offsets fill_rect and draw_line add to base_vertex, in push order
QuadOffsets == <<0, 1, 2, 0, 2, 3>>

\* what fill_circle pushes for segment i: the centre, the current edge vertex
\* and the next one (r = 0, 1, 2), in a build whose u16 additions wrap
FanEntry(base_vertex, segments, i, r) ==
    CASE r = 0 -> base_vertex
      [] r = 1 -> AsU16(AsU16(base_vertex + 1) + AsU16(i))
      [] OTHER -> AsU16(AsU16(base_vertex + 1) + AsU16((i + 1) % segments))

\* entry j (from 1) of a block
BlockEntry(blk, j) ==
    IF blk.shape = "quad"
    THEN IF QuadOffsets[j] = 0
         THEN blk.base
         ELSE AsU16(blk.base + QuadOffsets[j])
    ELSE FanEntry(blk.base, blk.segments, (j - 1) \div 3, (j - 1) % 3)

\* whether an addition of fill_rect or draw_line overflows u16
QuadOverflows(base_vertex) ==
    \E k \in 1..3 : base_vertex + k > U16Max

\* whether an addition of fill_circle's index loop overflows u16
FanOverflows(base_vertex, segments) ==
    \E i \in 0..(segments - 1) :
        \/ base_vertex + 1 > U16Max
        \/ base_vertex + 1 + AsU16(i) > U16Max
        \/ base_vertex + 1 + AsU16((i + 1) % segments) > U16Max

RECURSIVE FloatCount(_)
\* vertices.len()
FloatCount(vs) ==
    IF vs = <<>> THEN 0 ELSE vs[1].floats + FloatCount(Tail(vs))

RECURSIVE IndexLen(_)
\* indices.len()
IndexLen(is) ==
    IF is = <<>> THEN 0 ELSE BlockLen(is[1]) + IndexLen(Tail(is))

\* a drawing call that returns, leaving the batch as b
Drawn(op, arg, b) ==
    /\ buf_vertices' = b.vertices
    /\ indices' = b.indices
    /\ vertex_count' = b.vertex_count
    /\ index_count' = b.index_count
    /\ shapes' = shapes + 1
    /\ b_last' = [op |-> op, arg |-> arg]
    /\ UNCHANGED <<current_color, b_trapped>>

\* an overflow panic inside a call of a build that checks arithmetic: the wasm
\* instance traps, the batch takes no further call and is never read again
BatchPanic(op, arg) ==
    /\ b_trapped' = TRUE
    /\ b_last' = [op |-> op, arg |-> arg]
    /\ UNCHANGED <<bufVars, shapes>>

\* Canvas2D::set_color(r, g, b, a)
set_color(c) ==
    /\ current_color' = c
    /\ b_last' = [op |-> "set_color", arg |-> c]
    /\ UNCHANGED <<buf_vertices, indices, vertex_count, index_count,
                   shapes, b_trapped>>

\* mutant: fill_rect reading base_vertex after it has added its vertices
fill_rect_late_base(checks) ==
    LET b == add_vertex(Batch, 4)
        base_vertex == AsU16(b.vertex_count)
    IN  IF checks /\ QuadOverflows(base_vertex)
        THEN BatchPanic("fill_rect", <<>>)
        ELSE Drawn("fill_rect", <<>>, push_quad(b, base_vertex))

\* Canvas2D::fill_rect(x, y, width, height); checks: whether this build checks
\* arithmetic overflow
fill_rect(checks) ==
    LET base_vertex == AsU16(vertex_count)
        b == add_vertex(Batch, 4)
    IN  IF checks /\ QuadOverflows(base_vertex)
        THEN BatchPanic("fill_rect", <<>>)
        ELSE Drawn("fill_rect", <<>>, push_quad(b, base_vertex))

\* Canvas2D::fill_circle(x, y, radius, segments)
fill_circle(segments, checks) ==
    LET base_vertex == AsU16(vertex_count)
        b == add_vertex(add_vertex(Batch, 1), segments)
    IN  IF checks /\ FanOverflows(base_vertex, segments)
        THEN BatchPanic("fill_circle", <<segments>>)
        ELSE Drawn("fill_circle", <<segments>>, push_fan(b, base_vertex, segments))

\* dx * dx + dy * dy, the square of draw_line's length
LengthSquared(x1, y1, x2, y2) ==
    (x2 - x1) * (x2 - x1) + (y2 - y1) * (y2 - y1)

\* mutant: draw_line without its early return
draw_line_always(x1, y1, x2, y2, checks) ==
    LET base_vertex == AsU16(vertex_count)
        b == add_vertex(Batch, 4)
    IN  IF checks /\ QuadOverflows(base_vertex)
        THEN BatchPanic("draw_line", <<x1, y1, x2, y2>>)
        ELSE Drawn("draw_line", <<x1, y1, x2, y2>>, push_quad(b, base_vertex))

\* Canvas2D::draw_line(x1, y1, x2, y2, thickness); "length < 0.0001" is decided
\* on the squares
draw_line(x1, y1, x2, y2, checks) ==
    LET base_vertex == AsU16(vertex_count)
    IN  IF LengthSquared(x1, y1, x2, y2) < LINE_THRESHOLD * LINE_THRESHOLD
        THEN Drawn("draw_line", <<x1, y1, x2, y2>>, Batch)
        ELSE LET b == add_vertex(Batch, 4)
             IN  IF checks /\ QuadOverflows(base_vertex)
                 THEN BatchPanic("draw_line", <<x1, y1, x2, y2>>)
                 ELSE Drawn("draw_line", <<x1, y1, x2, y2>>,
                            push_quad(b, base_vertex))

\* Canvas2D::upload(): both arrays are handed whole to queue.writeBuffer, at
\* offset 0 of the vertex and of the index buffer; arg is the two byte lengths
upload ==
    /\ b_last' = [op |-> "upload",
                  arg |-> <<F32_BYTES * FloatCount(buf_vertices),
                            U16_BYTES * IndexLen(indices)>>]
    /\ UNCHANGED <<bufVars, shapes, b_trapped>>

\* Canvas2D::clear() of the batcher
batch_clear ==
    /\ buf_vertices' = <<>>
    /\ indices' = <<>>
    /\ vertex_count' = 0
    /\ index_count' = 0
    /\ shapes' = 0
    /\ b_last' = [op |-> "clear", arg |-> <<>>]
    /\ UNCHANGED <<current_color, b_trapped>>

\* ---- the batcher's actions: the host draws at most cap shapes per batch
SetColor(colors) ==
    /\ ~b_trapped
    /\ \E c \in colors : set_color(c)
    /\ UNCHANGED nonBatchVars

FillRect(cap) ==
    /\ ~b_trapped
    /\ shapes < cap
    /\ \E checks \in BOOLEAN : fill_rect(checks)
    /\ UNCHANGED nonBatchVars

FillCircle(segment_counts, cap) ==
    /\ ~b_trapped
    /\ shapes < cap
    /\ \E segments \in segment_counts, checks \in BOOLEAN :
           fill_circle(segments, checks)
    /\ UNCHANGED nonBatchVars

DrawLine(lines, cap) ==
    /\ ~b_trapped
    /\ shapes < cap
    /\ \E ln \in lines, checks \in BOOLEAN :
           draw_line(ln[1], ln[2], ln[3], ln[4], checks)
    /\ UNCHANGED nonBatchVars

Upload ==
    /\ ~b_trapped
    /\ upload
    /\ UNCHANGED nonBatchVars

BatchClear ==
    /\ ~b_trapped
    /\ batch_clear
    /\ UNCHANGED nonBatchVars

(***************************************************************************)
(* The driver's next-state relation: one action per exported method, the   *)
(* host choosing the arguments from the sets the action is given           *)
(***************************************************************************)
Live == inst = "live" /\ ~trapped

CanvasInit(sizes, ticks, outcomes) ==
    /\ \E wh \in sizes, t \in ticks, outcome \in outcomes :
           t >= now /\ Init_(wh[1], wh[2], t, outcome)
    /\ render_options' = <<>>
    /\ UNCHANGED nonDriverVars

DrawPolygonRow(counts, option_values) ==
    /\ Live
    /\ \E count \in counts, options \in option_values, failAt \in FailPoints :
           draw_polygon_row(count, options, failAt)
    /\ UNCHANGED nonDriverVars

DrawParticles(counts) ==
    /\ Live
    /\ \E count \in counts, failAt \in FailPoints : draw_particles(count, failAt)
    /\ render_options' = <<>>
    /\ UNCHANGED nonDriverVars

DrawFlowField(counts) ==
    /\ Live
    /\ \E resolution \in counts, failAt \in FailPoints :
           draw_flow_field(resolution, failAt)
    /\ render_options' = <<>>
    /\ UNCHANGED nonDriverVars

DrawCellularAutomata(grid_sizes) ==
    /\ Live
    /\ \E grid_size \in grid_sizes, failAt \in FailPoints :
           draw_cellular_automata(grid_size, failAt)
    /\ render_options' = <<>>
    /\ UNCHANGED nonDriverVars

DrawFractalTree(depths, branches) ==
    /\ Live
    /\ \E max_depth \in depths, branch_count \in branches, checks \in BOOLEAN,
          failAt \in FailPoints :
           draw_fractal_tree(max_depth, branch_count, checks, failAt)
    /\ render_options' = <<>>
    /\ UNCHANGED nonDriverVars

Clear ==
    /\ Live
    /\ clear
    /\ render_options' = <<>>
    /\ UNCHANGED nonDriverVars

Render(ticks) ==
    /\ Live
    /\ \E current_time \in ticks : current_time >= now /\ render(current_time)
    /\ render_options' = <<>>
    /\ UNCHANGED nonDriverVars

Resize(sizes) ==
    /\ Live
    /\ \E wh \in sizes : resize(wh[1], wh[2])
    /\ render_options' = <<>>
    /\ UNCHANGED nonDriverVars

Dispose ==
    /\ Live
    /\ dispose
    /\ render_options' = <<>>
    /\ UNCHANGED nonDriverVars

(***************************************************************************)
(* Spec: every operation of the driver.  Counts run to MaxCount and the    *)
(* context refuses up to MaxRefusals buffers; the viewport is a wide or a  *)
(* tall one, the clock reads 0 or 1 ms, and the fractal tree is asked for  *)
(* depths 0 and 1 with 1 or 2 branches.                                   *)
(***************************************************************************)
Counts == 0..MaxCount
GridSizes == {16 * k : k \in Counts} \cup {15}
ViewSizes == {<<2, 1>>, <<1, 2>>}
Ticks == {0, 1}
Depths == {0, 1}
Branches == {1, 2}

Init == DriverInit /\ GenIdle /\ HslIdle /\ BatchNew

Next ==
    \/ CanvasInit(ViewSizes, Ticks, InitOutcomes)
    \/ DrawPolygonRow(Counts, {JsNull})
    \/ DrawParticles(Counts)
    \/ DrawFlowField(Counts)
    \/ DrawCellularAutomata(GridSizes)
    \/ DrawFractalTree(Depths, Branches)
    \/ Clear
    \/ Render(Ticks)
    \/ Resize(ViewSizes)
    \/ Dispose

Spec == Init /\ [][Next]_vars

(***************************************************************************)
(* SpecTime: the frame clock.  One instance is created and configured and  *)
(* frames are rendered while the host clock runs through 0..3 ms.          *)
(***************************************************************************)
TimeTicks == {0, 1, 2, 3}

NextTime ==
    \/ CanvasInit({<<2, 1>>}, TimeTicks, {"ok"})
    \/ DrawPolygonRow(Counts, {JsNull})
    \/ Render(TimeTicks)
    \/ Dispose

SpecTime == Init /\ [][NextTime]_vars

(***************************************************************************)
(* SpecHsl: hsl_to_rgb on its own.  The arguments are drawn from a grid of *)
(* rationals with denominator HslSteps: the hue from -1 to 2, saturation   *)
(* and lightness from 0 to 1.                                              *)
(***************************************************************************)
HueGrid == {Rat(k, HslSteps) : k \in (0 - HslSteps)..(2 * HslSteps)}
UnitGrid == {Rat(k, HslSteps) : k \in 0..HslSteps}

HslInit ==
    /\ hsl \in HueGrid \X UnitGrid \X UnitGrid
    /\ rgb = <<>>

\* let (r, g, b) = hsl_to_rgb(h, s, l);
HslCall ==
    /\ hsl # <<>>
    /\ rgb = <<>>
    /\ rgb' = hsl_to_rgb(hsl[1], hsl[2], hsl[3])
    /\ UNCHANGED hsl
    /\ UNCHANGED nonHslVars

InitHsl == HslInit /\ DriverInit /\ GenIdle /\ BatchNew

NextHsl == HslCall

SpecHsl == InitHsl /\ [][NextHsl]_vars

(***************************************************************************)
(* SpecBatch: the batcher under every call, with small shapes: two         *)
(* colours, circles of 0, 1 and 3 segments, and lines of length 0, below   *)
(* the threshold, at the threshold and above it.                           *)
(***************************************************************************)
Palette == {White, <<1, 0, 0, 1>>}
SegmentCounts == {0, 1, 3}
Lines == {<<1, 1, 1, 1>>, <<0, 0, 1, 1>>, <<1, 0, 3, 0>>, <<0, 0, 3, 4>>}

InitBatch == DriverInit /\ GenIdle /\ HslIdle /\ BatchNew

NextBatch ==
    \/ SetColor(Palette)
    \/ FillRect(MaxShapes)
    \/ FillCircle(SegmentCounts, MaxShapes)
    \/ DrawLine(Lines, MaxShapes)
    \/ Upload
    \/ BatchClear

SpecBatch == InitBatch /\ [][NextBatch]_vars

(***************************************************************************)
(* SpecBatchWide: the batcher past the range of u16: one colour, the same  *)
(* shapes and lines, and a circle of 2^16 + 1 segments.                    *)
(***************************************************************************)
WideSegmentCounts == SegmentCounts \cup {2 ^ U16Bits + 1}
NextBatchWide ==
    \/ FillRect(MaxWideShapes)
    \/ FillCircle(WideSegmentCounts, MaxWideShapes)
    \/ DrawLine(Lines, MaxWideShapes)
    \/ Upload
    \/ BatchClear

SpecBatchWide == InitBatch /\ [][NextBatchWide]_vars

(***************************************************************************)
(* SpecOptions: draw_polygon_row under its options argument: absent, an    *)
(* empty object, an object that sets every field, an object whose fields   *)
(* have the wrong types or throw, and a value that is not an object.       *)
(***************************************************************************)
OptionValues ==
    { JsNull,
      [t |-> "undefined", fields |-> NoFields],
      [t |-> "object", fields |-> NoFields],
      [t |-> "object",
       fields |-> [NoFields EXCEPT !["animate"] = JsBool(FALSE),
                                   !["center_x"] = JsNumber(3),
                                   !["center_y"] = JsNumber(0 - 3),
                                   !["scale"] = JsNumber(2),
                                   !["spacing"] = JsNumber(0),
                                   !["rotation"] = JsNumber(90),
                                   !["shape_type"] = JsNumber(1),
                                   !["unrecognised"] = JsNumber(7)]],
      [t |-> "object",
       fields |-> [NoFields EXCEPT !["animate"] = JsNumber(1),
                                   !["center_x"] = JsString,
                                   !["center_y"] = JsNullValue,
                                   !["scale"] = JsThrows,
                                   !["spacing"] = JsBool(TRUE),
                                   !["shape_type"] = JsNumber(0 - 2),
                                   !["unrecognised"] = JsThrows]],
      [t |-> "number", fields |-> NoFields] }

NextOptions ==
    \/ CanvasInit({<<2, 1>>}, {0}, {"ok"})
    \/ DrawPolygonRow(Counts, OptionValues)
    \/ Dispose

SpecOptions == Init /\ [][NextOptions]_vars

(***************************************************************************)
(* SpecFractal: draw_fractal_tree over depths on both sides of the width   *)
(* of a u32 and over branch counts from 0 up, the default included, in     *)
(* builds with and without overflow checks.                                *)
(***************************************************************************)
FractalDepths == {0, 1, 2, 7, U32Bits - 1, U32Bits, U32Bits + 1}

FractalOptions ==
    { JsNull,
      [t |-> "object", fields |-> NoFields],
      [t |-> "object", fields |-> [NoFields EXCEPT !["branch_count"] = JsString]] }
    \cup { [t |-> "object",
            fields |-> [NoFields EXCEPT !["branch_count"] = JsNumber(b)]] :
            b \in {0 - 1, 0, 1, 2, 4} }

NextFractal ==
    \/ CanvasInit({<<2, 1>>}, {0}, {"ok"})
    \/ DrawFractalTree(FractalDepths, {BranchCount(o) : o \in FractalOptions})
    \/ Dispose

SpecFractal == Init /\ [][NextFractal]_vars

(***************************************************************************)
(* The generator on its own: num_polygons drawn from 0..GenMaxCount        *)
(***************************************************************************)
InitGen == GenInit /\ DriverInit /\ HslIdle /\ BatchNew

NextGen ==
    \/ GenIter /\ UNCHANGED nonGenVars
    \/ GenReturn /\ UNCHANGED nonGenVars

SpecGen == InitGen /\ [][NextGen]_vars

(***************************************************************************)
(* Properties of the driver, checked under Spec                            *)
(***************************************************************************)

\* every operation that reports a disposed instance by an error
GuardedOps == ConfigureOps \cup {"render", "resize", "clear"}

\* C1: on an instance that dispose() has been called on, every later configure
\* operation, render, resize and clear returns the disposed error, and every
\* later dispose() returns success, issues no GL call and changes nothing.
C1_AfterDispose ==
    [][is_disposed =>
          /\ last'.op \in GuardedOps \cup {"dispose"}
          /\ last'.op \in GuardedOps => last'.res = DisposedError
          /\ last'.op = "dispose" =>
                 /\ last'.res = "ok"
                 /\ calls' = <<>>
                 /\ UNCHANGED <<instVars, glVars, hostVars>>]_vars

\* C1 witness: a fractal tree was asked of a disposed instance and refused
C1_Witness ==
    /\ is_disposed
    /\ last.op = "draw_fractal_tree"
    /\ last.res = DisposedError

\* C2: the instance is Ready (not disposed) after a successful init, the flag
\* changes only from false to true and only in dispose(), and once true it stays
\* true whatever is called next.
C2_OneWay ==
    [][/\ is_disposed \in BOOLEAN /\ is_disposed' \in BOOLEAN
       /\ (last'.op = "init" /\ last'.res = "ok") => (inst' = "live" /\ ~is_disposed')
       /\ is_disposed => is_disposed'
       /\ (is_disposed' # is_disposed) => (~is_disposed /\ last'.op = "dispose")]_vars

\* C2 witness: a disposed instance that has been resized since, still disposed
C2_Witness ==
    /\ is_disposed
    /\ last.op = "resize"
    /\ program_deletes = 1

\* C3: a configure operation that succeeds with count M leaves the active
\* element count equal to M and all four attributes bound to buffers generated
\* for M polygons, whatever was configured before; repeated straight after a
\* successful configure of the same count it changes neither.
C3_ConfigureReplaces ==
    [][(last'.op \in ConfigureOps /\ last'.res = "ok") =>
          /\ element_count' = last'.count
          /\ \A a \in AttrNames :
                 attribs'[a].data # "none" /\ attribs'[a].polys = last'.count
          /\ (last.op \in ConfigureOps /\ last.res = "ok"
                  /\ last.count = last'.count) =>
                 (attribs' = attribs /\ element_count' = element_count)]_vars

\* C3 witness: configure(2), then a successful draw_polygon_row(1)
C3_Witness ==
    /\ last.op = "draw_polygon_row"
    /\ last.res = "ok"
    /\ last.prev_count = 2
    /\ last.count = 1
    /\ element_count = 1
    /\ \A a \in AttrNames : attribs[a].polys = 1

\* C4: render() on a Ready instance whose active element count is 0 returns 0.0,
\* issues no GL call and leaves the render state, the last frame time included,
\* and the context unchanged.
C4_RenderNothing ==
    [][(last'.op = "render" /\ ~is_disposed /\ element_count = 0) =>
          /\ last'.res = "ok"
          /\ last'.ret = <<0, 1>>
          /\ calls' = <<>>
          /\ UNCHANGED <<instVars, glVars, hostVars>>]_vars

\* C4 witness: a render on a Ready instance configured for 0 polygons, which
\* returned 0.0 without a GL call
C4_Witness ==
    /\ last.op = "render"
    /\ last.res = "ok"
    /\ ~is_disposed
    /\ element_count = 0
    /\ \A a \in AttrNames : attribs[a].data # "none" /\ attribs[a].polys = 0
    /\ calls = <<>>

\* the names of the calls of a log
CallNames(log) == [k \in 1..Len(log) |-> log[k][1]]

\* C5: a render() on a Ready instance with n > 0 active elements pushes the
\* uniforms, clears the colour buffer and then issues exactly n draw calls, the
\* i-th (from 0) with first vertex i*(SEGMENTS+2) and SEGMENTS+2 vertices.
C5_DrawCalls ==
    (last.op = "render" /\ last.res = "ok" /\ element_count > 0) =>
        /\ Len(calls) = 8 + element_count
        /\ SubSeq(CallNames(calls), 1, 8) =
               <<"use_program", "bind_vertex_array", "uniform1f_uTime",
                 "uniform1f_uAspectRatio", "uniform1i_uElementCount",
                 "uniform_matrix4fv_uMatrix", "clear_color", "clear">>
        /\ \A i \in 0..(element_count - 1) :
               calls[9 + i] = <<"draw_arrays", i * (SEGMENTS + 2), SEGMENTS + 2>>

\* C5 witness: a frame of two polygons, the second drawn from vertex 32
C5_Witness ==
    /\ last.op = "render"
    /\ last.res = "ok"
    /\ element_count = 2
    /\ Len(calls) = 10
    /\ calls[10] = <<"draw_arrays", 32, 32>>

\* C10 (as claimed): a call that fails leaves the buffers bound to the four
\* attributes and the active element count as they were.
C10_FailureChangesNothing ==
    [][(last'.op \in GuardedOps /\ last'.res # "ok") =>
          (attribs' = attribs /\ element_count' = element_count)]_vars

\* the errors of init that come from compile_shader and link_program
ShaderErrors == {"Unable to create shader object", "shader info log",
                 "Unable to create shader program", "program info log"}

\* C11 (as claimed): the only errors are the disposed error, returned on a
\* disposed instance, and a shader or program failure of init; no operation on
\* a Ready instance returns an error.
C11_OnlyDisposedOrShader ==
    [][(last'.res \notin {"ok", "panic"}) =>
          \/ (is_disposed /\ last'.res = DisposedError)
          \/ (last'.op = "init" /\ last'.res \in ShaderErrors)]_vars

\* C11 (amended): init returns success or one of its five failures, the
\* vertex-array failure included; on a Ready instance a configure operation
\* returns success or the failure of one of its four buffer allocations (or
\* draw_fractal_tree traps), and clear, render, resize and dispose return
\* success; the disposed error is returned only on a disposed instance.
C11_ErrorOutcomes ==
    [][/\ last'.op = "init" => last'.res \in InitOutcomes
       /\ (last'.op \in ConfigureOps /\ ~is_disposed) =>
              last'.res \in {"ok"} \cup BufferErrors
                  \cup (IF last'.op = "draw_fractal_tree" THEN {"panic"} ELSE {})
       /\ (last'.op \in {"clear", "render", "resize", "dispose"} /\ ~is_disposed) =>
              last'.res = "ok"
       /\ last'.res = DisposedError => (is_disposed /\ last'.op \in GuardedOps)]_vars

\* C11 witness: a Ready instance whose draw_particles was refused its third
\* buffer and returned that failure
C11_Witness ==
    /\ inst = "live"
    /\ ~is_disposed
    /\ last.op = "draw_particles"
    /\ last.res = "Failed to create instance buffer"

\* the calls of a log that release the program or the vertex-array object
Releases(log) ==
    {k \in 1..Len(log) : log[k][1] \in {"delete_program", "delete_vertex_array"}}

\* C12: the program and the vertex-array object are each released exactly once,
\* by the first dispose(): a release happens only in a dispose() on a Ready
\* instance, which releases each once; every call on a disposed instance, a later
\* dispose() included, issues no GL call, and a later dispose() returns success.
C12_ReleasedOnce ==
    [][/\ program_deletes' = (IF is_disposed' THEN 1 ELSE 0)
       /\ vao_deletes' = (IF is_disposed' THEN 1 ELSE 0)
       /\ (last'.op = "dispose" /\ ~is_disposed) =>
              /\ calls' = << <<"delete_program", 0, 0>>,
                             <<"delete_vertex_array", 0, 0>> >>
              /\ program_deletes' = program_deletes + 1
              /\ vao_deletes' = vao_deletes + 1
       /\ ~(last'.op = "dispose" /\ ~is_disposed) =>
              /\ Releases(calls') = {}
              /\ program_deletes' = program_deletes
              /\ vao_deletes' = vao_deletes
       /\ is_disposed =>
              /\ calls' = <<>>
              /\ last'.op = "dispose" => last'.res = "ok"]_vars

\* C12 witness: a second dispose() has returned, with no GL call, and each
\* object has still been released once
C12_Witness ==
    /\ is_disposed
    /\ last.op = "dispose"
    /\ last.res = "ok"
    /\ calls = <<>>
    /\ program_deletes = 1
    /\ vao_deletes = 1

\* C13: resize(w, h) on a Ready instance succeeds, stores w and h as the width
\* and height and sets the viewport to them, and leaves the active element
\* count, the attribute buffers, the start time, the last-frame time and the
\* disposed flag as they were; only init and resize write the stored size, and
\* a render that draws pushes the stored width / height as the aspect ratio, so
\* the next render after resize(w, h) pushes w / h.
C13_Resize ==
    [][/\ (last'.op = "resize" /\ ~is_disposed) =>
              /\ last'.res = "ok"
              /\ calls' = << <<"viewport", width', height'>> >>
              /\ viewport' = <<width', height'>>
              /\ <<width', height'>> \in ViewSizes
              /\ UNCHANGED <<element_count, attribs, start_time,
                             last_frame_time, is_disposed>>
       /\ (<<width', height'>> # <<width, height>>) =>
              (last'.res = "ok" /\ last'.op \in {"init", "resize"})
       /\ (last'.op = "render" /\ ~is_disposed /\ element_count > 0) =>
              calls'[4] = <<"uniform1f_uAspectRatio", width, height>>]_vars

\* C13 witness: a Ready instance that holds 2 elements and has drawn a frame
\* since init has just been resized to 1 wide and 2 high
C13_Witness ==
    /\ last.op = "resize"
    /\ last.res = "ok"
    /\ ~is_disposed
    /\ element_count = 2
    /\ last_frame_time > start_time
    /\ <<width, height>> = <<1, 2>>
    /\ viewport = <<1, 2>>

\* C17 (as claimed): in every Ready state the four attribute buffers hold data
\* for one and the same polygon count, and that count is at least the active
\* element count, so each draw call of render, which reads vertices
\* i*(SEGMENTS+2) .. (i+1)*(SEGMENTS+2) - 1 for i below the active count, stays
\* inside every bound buffer.
C17_BuffersCoverDraws ==
    (inst = "live" /\ ~is_disposed) =>
        /\ \A a, b \in AttrNames : attribs[a].polys = attribs[b].polys
        /\ \A a \in AttrNames :
               /\ attribs[a].polys >= element_count
               /\ element_count * VERTICES_PER_POLYGON
                      <= attribs[a].polys * VERTICES_PER_POLYGON

(***************************************************************************)
(* Properties of the frame clock, checked under SpecTime                   *)
(***************************************************************************)

\* what a step does with the clock, uTime being the elapsed milliseconds
\* divided by per_unit
RenderClock(per_unit) ==
    /\ now' >= now
    /\ (last'.op = "init" /\ last'.res = "ok") =>
           (start_time' = now' /\ last_frame_time' = now')
    /\ inst = "live" => start_time' = start_time
    /\ (last_frame_time' # last_frame_time) =>
           \/ last'.op = "init"
           \/ (last'.op = "render" /\ ~is_disposed /\ element_count > 0)
    /\ (last'.op = "render" /\ ~is_disposed /\ element_count > 0) =>
           /\ last'.res = "ok"
           /\ calls'[3] = <<"uniform1f_uTime", Rat(now' - start_time, per_unit)[1],
                            Rat(now' - start_time, per_unit)[2]>>
           /\ last'.ret = <<now' - last_frame_time, 1>>
           /\ now' - last_frame_time >= 0
           /\ last_frame_time' = now'

\* C14 (as claimed): a drawing render at clock value t pushes t - start_time as
\* uTime, returns t - last_frame_time milliseconds, never negative, and records
\* t as the last-frame time; only init and a drawing render write the last-frame
\* time and start_time never changes after init.
C14_ElapsedAsRead ==
    [][RenderClock(1)]_vars

\* C14 (amended): the same, with uTime pushed in seconds: (t - start_time) / 1000.
C14_Clock ==
    [][RenderClock(1000)]_vars

\* C14 witness: an instance created at 1 ms drew a frame at 2 ms and another at
\* 3 ms, which pushed 2/1000 s and returned 1 ms
C14_Witness ==
    /\ last.op = "render"
    /\ last.res = "ok"
    /\ start_time = 1
    /\ last_frame_time = 3
    /\ now = 3
    /\ last.ret = <<1, 1>>
    /\ Len(calls) > 3
    /\ calls[3] = <<"uniform1f_uTime", 1, 500>>

(***************************************************************************)
(* Properties of hsl_to_rgb, checked under SpecHsl                         *)
(***************************************************************************)
RAbs(a) == <<Abs(a[1]), a[2]>>

\* the greatest integer not above a
RFloor(a) == IF a[1] >= 0 THEN a[1] \div a[2] ELSE 0 - (((0 - a[1]) + a[2] - 1) \div a[2])

\* the textbook conversion for a hue in 0..1, by chroma and hue sector:
\* C = (1 - |2l - 1|) s, X = C (1 - |6h mod 2 - 1|), m = l - C/2
StandardHsl(h, s, l) ==
    LET c == RMul(RSub(Rat(1, 1), RAbs(RSub(RMul(Rat(2, 1), l), Rat(1, 1)))), s)
        h6 == RMul(Rat(6, 1), h)
        sector == RFloor(h6) % 6
        h6mod2 == RSub(h6, Rat(2 * RFloor(RMul(h6, Rat(1, 2))), 1))
        x == RMul(c, RSub(Rat(1, 1), RAbs(RSub(h6mod2, Rat(1, 1)))))
        m == RSub(l, RMul(c, Rat(1, 2)))
        o == Rat(0, 1)
        t == CASE sector = 0 -> <<c, x, o>>
               [] sector = 1 -> <<x, c, o>>
               [] sector = 2 -> <<o, c, x>>
               [] sector = 3 -> <<o, x, c>>
               [] sector = 4 -> <<x, o, c>>
               [] OTHER -> <<c, o, x>>
    IN  <<RAdd(t[1], m), RAdd(t[2], m), RAdd(t[3], m)>>

\* C15: hsl_to_rgb(h, 0, l) is (l, l, l) for every hue and lightness,
\* hsl_to_rgb(0, 1, 1/2) is (1, 0, 0), hsl_to_rgb(1/3, 1, 1/2) is (0, 1, 0), and
\* for a hue from 0 to 1 the result is that of the standard conversion.
C15_HslToRgb ==
    rgb # <<>> =>
        /\ hsl[2] = Rat(0, 1) => rgb = <<hsl[3], hsl[3], hsl[3]>>
        /\ hsl = <<Rat(0, 1), Rat(1, 1), Rat(1, 2)>> =>
               rgb = <<Rat(1, 1), Rat(0, 1), Rat(0, 1)>>
        /\ hsl = <<Rat(1, 3), Rat(1, 1), Rat(1, 2)>> =>
               rgb = <<Rat(0, 1), Rat(1, 1), Rat(0, 1)>>
        /\ (~RLess(hsl[1], Rat(0, 1)) /\ ~RLess(Rat(1, 1), hsl[1])) =>
               rgb = StandardHsl(hsl[1], hsl[2], hsl[3])

\* C15 witness: hsl_to_rgb(1/3, 1, 1/2) has returned pure green
C15_Witness ==
    /\ hsl = <<Rat(1, 3), Rat(1, 1), Rat(1, 2)>>
    /\ rgb = <<Rat(0, 1), Rat(1, 1), Rat(0, 1)>>

(***************************************************************************)
(* Properties of the batcher, checked under SpecBatch and SpecBatchWide    *)
(***************************************************************************)

\* C16: a draw_line whose segment is shorter than the threshold (a zero-length
\* one included) returns without a fault and leaves the buffered vertices, the
\* buffered indices, vertex_count, index_count and the current colour unchanged.
C16_DegenerateLine ==
    [][(/\ b_last'.op = "draw_line"
        /\ LengthSquared(b_last'.arg[1], b_last'.arg[2],
                         b_last'.arg[3], b_last'.arg[4])
               < LINE_THRESHOLD * LINE_THRESHOLD) =>
          /\ ~b_trapped'
          /\ UNCHANGED <<buf_vertices, indices, vertex_count, index_count,
                         current_color>>]_vars

\* C16 witness: a zero-length line was asked for after a rectangle, and the
\* batch still holds the rectangle's 4 vertices and 6 indices only
C16_Witness ==
    /\ b_last = [op |-> "draw_line", arg |-> <<1, 1, 1, 1>>]
    /\ shapes = 2
    /\ vertex_count = 4
    /\ index_count = 6
    /\ ~b_trapped

\* C18: after every call the vertex array holds exactly 6 * vertex_count floats
\* and the index array exactly index_count entries; clear empties both arrays,
\* zeroes both counters and leaves the current colour unchanged.
C18_LengthsMatchCounts ==
    [][/\ FloatCount(buf_vertices') = 6 * vertex_count'
       /\ IndexLen(indices') = index_count'
       /\ b_last'.op = "clear" =>
              /\ buf_vertices' = <<>>
              /\ indices' = <<>>
              /\ vertex_count' = 0
              /\ index_count' = 0
              /\ current_color' = current_color]_vars

\* C18 witness: a 3-segment circle in one colour and a rectangle in another are
\* buffered: 8 vertices in 48 floats, 15 indices
C18_Witness ==
    /\ Len(buf_vertices) = 2
    /\ vertex_count = 8
    /\ index_count = 15
    /\ FloatCount(buf_vertices) = 48
    /\ IndexLen(indices) = 15
    /\ current_color # White

\* C19: every entry of the index array is smaller than vertex_count, whatever
\* the base vertex number and the per-segment offsets were truncated to.
C19_IndicesInRange ==
    \A k \in 1..Len(indices) :
        IF indices[k].shape = "quad"
        THEN \A j \in 1..BlockLen(indices[k]) :
                 BlockEntry(indices[k], j) < vertex_count
        ELSE \A i \in 0..(indices[k].segments - 1) : \A r \in 0..2 :
                 FanEntry(indices[k].base, indices[k].segments, i, r) < vertex_count

\* C19 witness: a circle of 2^16 + 1 segments was buffered after a rectangle;
\* its base vertex is 4 and the edge index of segment 65531 has wrapped to 0
C19_Witness ==
    /\ Len(indices) = 2
    /\ indices[2].shape = "fan"
    /\ indices[2].base = 4
    /\ indices[2].segments = 2 ^ U16Bits + 1
    /\ vertex_count = 4 + 2 ^ U16Bits + 2
    /\ BlockEntry(indices[2], 3 * 65531 + 2) = 0

\* C20 (as claimed): vertex_count never exceeds MAX_VERTICES and index_count
\* never exceeds MAX_INDICES, and an upload writes no more bytes than the vertex
\* and the index buffer were created with.
C20_WithinCapacity ==
    /\ vertex_count <= MAX_VERTICES
    /\ index_count <= MAX_INDICES
    /\ b_last.op = "upload" =>
           /\ b_last.arg[1] <= VertexBufferBytes
           /\ b_last.arg[2] <= IndexBufferBytes

(***************************************************************************)
(* Properties of draw_polygon_row's options, checked under SpecOptions     *)
(***************************************************************************)

\* C21: what draw_polygon_row(count, options) leaves behind is a function of
\* count, of the state it starts in and of which buffer the context refuses,
\* and of nothing else: on a Ready instance the attribute bindings, the GL calls
\* and the result are those of setup_polygon_buffers for count, the active
\* element count is count on success and unchanged on failure, and nothing
\* else of the instance or the context changes; on a disposed instance it is
\* the disposed error and no change.
C21_OptionsIgnored ==
    [][(last'.op = "draw_polygon_row") =>
          IF is_disposed
          THEN /\ last'.res = DisposedError
               /\ calls' = <<>>
               /\ UNCHANGED <<instVars, glVars>>
          ELSE \E failAt \in 0..4 :
                   LET r == setup_polygon_buffers(attribs, last'.count, failAt)
                   IN  /\ attribs' = r.attribs
                       /\ calls' = r.calls
                       /\ last'.res = r.res
                       /\ element_count' = IF r.res = "ok" THEN last'.count
                                                           ELSE element_count
                       /\ UNCHANGED <<inst, start_time, last_frame_time, width,
                                      height, is_disposed, viewport,
                                      program_deletes, vao_deletes>>]_vars

\* C21 witness: draw_polygon_row(2, options) has succeeded with options that
\* set every field away from its default
C21_Witness ==
    /\ last.op = "draw_polygon_row"
    /\ last.res = "ok"
    /\ element_count = 2
    /\ \A a \in AttrNames : attribs[a].polys = 2
    /\ render_options = << [animate |-> FALSE, center_x |-> 3, center_y |-> 0 - 3,
                            scale |-> 2, spacing |-> 0, rotation |-> 90,
                            shape_type |-> "Star"] >>

(***************************************************************************)
(* Properties of draw_fractal_tree, checked under SpecFractal              *)
(***************************************************************************)

\* C22: on a Ready instance every draw_fractal_tree call, whatever max_depth
\* and branch_count, completes without an arithmetic fault, and when it
\* succeeds the active element count is at most 100.
C22_NoArithmeticFault ==
    [][(last'.op = "draw_fractal_tree" /\ ~is_disposed) =>
          /\ last'.res # "panic"
          /\ ~trapped'
          /\ (last'.res = "ok" => element_count' <= ELEMENT_LIMIT)]_vars

(***************************************************************************)
(* Properties of the generator, checked under SpecGen                      *)
(***************************************************************************)

\* vertex v (from 0) of the position sequence, as <<x, y, z>>
Vertex(v) == <<all_vertices[3 * v + 1], all_vertices[3 * v + 2], all_vertices[3 * v + 3]>>

\* the rim point at angle index k of e equal steps
RimVertex(k, e) == <<CosTerm(k, e), SinTerm(k, e), Zero>>

\* the sides polygon i is drawn with
EffectiveSides(i) == IF 3 + i <= SEGMENTS THEN 3 + i ELSE SEGMENTS

\* C6 (as claimed): the four returned sequences all have the same length,
\* count*(SEGMENTS+2).
C6_SameLength ==
    g_pc = "done" =>
        /\ Len(all_vertices) = num_polygons * (SEGMENTS + 2)
        /\ Len(all_colors) = num_polygons * (SEGMENTS + 2)
        /\ Len(all_instance_indices) = num_polygons * (SEGMENTS + 2)
        /\ Len(all_side_counts) = num_polygons * (SEGMENTS + 2)

\* C6 (amended): the four returned sequences describe the same
\* count*(SEGMENTS+2) vertices, with 3, 4, 1 and 1 floats per vertex; for
\* count = 0 all four are empty.
C6_Lengths ==
    g_pc = "done" =>
        /\ Len(all_vertices) = 3 * num_polygons * (SEGMENTS + 2)
        /\ Len(all_colors) = 4 * num_polygons * (SEGMENTS + 2)
        /\ Len(all_instance_indices) = num_polygons * (SEGMENTS + 2)
        /\ Len(all_side_counts) = num_polygons * (SEGMENTS + 2)
        /\ num_polygons = 0 =>
               /\ all_vertices = <<>> /\ all_colors = <<>>
               /\ all_instance_indices = <<>> /\ all_side_counts = <<>>

\* C6 witness: the generator has returned for 31 polygons, the last two of
\* them asked for more sides than SEGMENTS
C6_Witness ==
    /\ g_pc = "done"
    /\ num_polygons = 31
    /\ Len(all_vertices) = 2976
    /\ Len(all_colors) = 3968

\* C7: every polygon, whatever its side count (3+i, which passes SEGMENTS),
\* appends exactly SEGMENTS+2 vertices, 3*(SEGMENTS+2) floats, so polygon i's
\* vertices are the slice from i*(SEGMENTS+2) of the position sequence: it
\* opens with polygon i's centre and its first rim point.
C7_ConstantStride ==
    /\ Len(all_vertices) = g_i * 3 * (SEGMENTS + 2)
    /\ \A i \in 0..(g_i - 1) :
           /\ Vertex(i * (SEGMENTS + 2)) = <<Zero, Zero, Zero>>
           /\ Vertex(i * (SEGMENTS + 2) + 1) = RimVertex(0, EffectiveSides(i))

\* C7 witness: a polygon of 34 sides has been appended after 31 others
C7_Witness ==
    /\ g_i = 32
    /\ PolygonSides(31) = 34
    /\ Len(all_vertices) = 3072

\* C8: polygon i's slice is its centre (0,0,0), then e+1 rim vertices, the k-th
\* at angle index k mod e of e steps (the last one on the first), then
\* SEGMENTS-e copies of the last rim vertex, e being the effective side count;
\* every vertex has z = 0.
C8_Layout ==
    \A i \in 0..(g_i - 1) :
        LET base == i * (SEGMENTS + 2)
            e == EffectiveSides(i)
        IN  /\ Vertex(base) = <<Zero, Zero, Zero>>
            /\ \A k \in 0..e : Vertex(base + 1 + k) = RimVertex(k % e, e)
            /\ Vertex(base + 1 + e) = Vertex(base + 1)
            /\ \A j \in (e + 2)..(SEGMENTS + 1) : Vertex(base + j) = Vertex(base + 1 + e)
            /\ Cardinality((e + 2)..(SEGMENTS + 1)) = SEGMENTS - e
            /\ \A j \in 0..(SEGMENTS + 1) : Vertex(base + j)[3] = Zero

\* C8 witness: a triangle: the fan closes on its first rim point at vertex 4
\* and is padded with it to the end of the slice
C8_Witness ==
    /\ g_pc = "done"
    /\ num_polygons = 1
    /\ Vertex(3) = RimVertex(2, 3)
    /\ Vertex(4) = RimVertex(0, 3)
    /\ Vertex(31) = RimVertex(0, 3)

\* C9: every vertex of polygon i carries sideCount 3+i (never capped, at least
\* 3) and instanceIndex i, while its rim is drawn with min(3+i, SEGMENTS) sides;
\* the two side counts agree exactly when 3+i <= SEGMENTS, and from i = SEGMENTS
\* on the reported one is the larger.
C9_SideCounts ==
    \A i \in 0..(g_i - 1) :
        LET base == i * (SEGMENTS + 2)
            reported == all_side_counts[base + 1]
            drawn == Vertex(base + 1)[1][3]
        IN  /\ \A j \in 1..(SEGMENTS + 2) :
                   /\ all_side_counts[base + j] = 3 + i
                   /\ all_instance_indices[base + j] = i
            /\ reported >= 3
            /\ drawn = Min(3 + i, SEGMENTS)
            /\ (reported = drawn) <=> (3 + i <= SEGMENTS)
            /\ i >= SEGMENTS => reported > drawn

\* C9 witness: polygon 30 reports 33 sides and is drawn with 30
C9_Witness ==
    /\ g_i > SEGMENTS
    /\ all_side_counts[SEGMENTS * (SEGMENTS + 2) + 1] = 33
    /\ Vertex(SEGMENTS * (SEGMENTS + 2) + 1) = RimVertex(0, SEGMENTS)

====
